---- MODULE Spec2Model ----
(***************************************************************************)
(* Model of the three timetable converters of asakusa_line_timetable:      *)
(*   "main"        src/timetable_converter.py                              *)
(*   "nishimagome" src/timetable_converter_nishimagome_html(...).py        *)
(*   "oshiage"     src/timetable_converter(...)oshiage-direction(...).py   *)
(* Each converter extracts a timetable (hour label -> list of trips) from  *)
(* the rows of an HTML table and serializes it in the NextTrain format.    *)
(* A run parses the documents it is given one after the other (parse_html: *)
(* station info, timetable, legends) and serializes the list of results.   *)
(*                                                                         *)
(* Text is modelled as a sequence of tokens (short strings); the glyphs    *)
(* of the source are written with ASCII names:                             *)
(*   "E" = e (airport kaitoku), "A" = a (access tokkyuu), "soku",          *)
(*   "tsuu", "toku", "kai", "kyuu" = the other train type symbols,         *)
(*   "kuu" = Narita airport, "oshi" = Oshiage, "dot" = the black circle,   *)
(*   "c1"/"c2" = the circled digits 1 and 2, "hane" = Haneda airport,      *)
(*   "idai" = the abbreviation of Imba-Nihon-Idai, "shina" = Shinagawa,    *)
(*   "FWHYPHEN" = the full-width hyphen placeholder,                       *)
(*   "SEP" = the middle dot that separates the segments of a direction,    *)
(*   "heijitsu", "doyou", "kyuujitsu" = the weekday, Saturday and holiday  *)
(*   tokens of a day tab, "shubetsu", "ikisaki", "setsuzoku" = the train   *)
(*   type, destination and connection tokens of a legend heading.          *)
(* " " and "\n" are the blank characters str.strip() removes.              *)
(***************************************************************************)
EXTENDS Integers, Sequences, FiniteSets, TLC

VARIABLES
    variant,    \* which of the three converters runs
    pc,         \* "extract" while rows are read, "done" after serialization
    station,    \* the station info of the document
    timetable,  \* the dict hour -> times, in insertion order
    rowsDone,   \* number of table rows read so far
    lastRow,    \* the row read last
    output,     \* the text convert_to_nexttrain returned
    documents,  \* the HTML documents parse_html was given, in order
    parsed_documents,   \* main's parsed_data_list: the results of parse_html
    output2     \* the text a second call of convert_to_nexttrain returned

vars == <<variant, pc, station, timetable, rowsDone, lastRow, output,
          documents, parsed_documents, output2>>

Variants == {"main", "nishimagome", "oshiage"}

(***************************************************************************)
(* Code tables (__init__)                                                  *)
(***************************************************************************)

\* destination_definitions: code -> <<full name, abbreviation>>
destination_definitions(v) ==
    IF v = "main" THEN
        [c \in {"a","b","c","d","e","f","g","h","i","j"} |->
            CASE c = "a" -> <<"Imba-Nihon-Idai", "in">>
              [] c = "b" -> <<"Shibayama-Chiyoda", "shiba">>
              [] c = "c" -> <<"Inzai-Makinohara", "maki">>
              [] c = "d" -> <<"Oshiage", "oshi">>
              [] c = "e" -> <<"Keisei-Takasago", "taka">>
              [] c = "f" -> <<"Keisei-Sakura", "sa">>
              [] c = "g" -> <<"Keisei-Narita", "nari">>
              [] c = "h" -> <<"Sogosando", "sou">>
              [] c = "i" -> <<"Narita-Kuukou", "kuu">>
              [] c = "j" -> <<"Aoto", "ao">>]
    ELSE IF v = "nishimagome" THEN
        [c \in {"a","b","c","d","e","f","g","h","i","j","k","l"} |->
            CASE c = "a" -> <<"Haneda-Kuukou", "hane">>
              [] c = "b" -> <<"Keikyuu-Kurihama", "ku">>
              [] c = "c" -> <<"Miurakaigan", "umi">>
              [] c = "d" -> <<"Misakiguchi", "san">>
              [] c = "e" -> <<"Kanagawa-Shinmachi", "kami">>
              [] c = "f" -> <<"Nishimagome'", "ma'">>
              [] c = "g" -> <<"Nishimagome''", "ma''">>
              [] c = "h" -> <<"Sengakuji", "sen">>
              [] c = "i" -> <<"Asakusabashi", "kusa">>
              [] c = "j" -> <<"Shinagawa", "shina">>
              [] c = "k" -> <<"Kanazawa-Bunko", "bun">>
              [] c = "l" -> <<"Zushi-Hayama", "zu">>]
    ELSE
        [c \in {"a","b","c","d","e","f","g","h","i","j"} |->
            CASE c = "a" -> <<"Imba-Nihon-Idai", "in">>
              [] c = "b" -> <<"Shibayama-Chiyoda", "shiba">>
              [] c = "c" -> <<"Inzai-Makinohara", "maki">>
              [] c = "d" -> <<"Oshiage", "oshi">>
              [] c = "e" -> <<"Keisei-Takasago", "taka">>
              [] c = "f" -> <<"Keisei-Sakura", "sa">>
              [] c = "g" -> <<"Keisei-Narita", "nari">>
              [] c = "h" -> <<"Narita-Kuukou", "kuu">>
              [] c = "i" -> <<"Aoto", "ao">>
              [] c = "j" -> <<"Sengakuji", "sen">>]

\* train_type_definitions: code -> <<full name, abbreviation, colour>>
train_type_definitions(v) ==
    IF v = "main" THEN
        [c \in {"k","l","m","n","o","p","q","r"} |->
            CASE c = "k" -> <<"Access-Tokkyuu", "A", "#EE7A00">>
              [] c = "l" -> <<"Airport-Kaitoku", "E", "#EE7A00">>
              [] c = "m" -> <<"Airport-Kaitoku-SkyAccess", "kai", "#EE7A00">>
              [] c = "n" -> <<"Tsuukin-Tokkyuu", "tsuu", "#0033FF">>
              [] c = "o" -> <<"Futsuu", "fu", "#000000">>
              [] c = "p" -> <<"Kaisoku", "kai", "#FC82FC">>
              [] c = "q" -> <<"Tokkyuu", "toku", "#FF0033">>
              [] c = "r" -> <<"Kaitoku", "kai", "#009966">>]
    ELSE IF v = "nishimagome" THEN
        [c \in {"m","n","o","p","q"} |->
            CASE c = "m" -> <<"Kaitoku", "kai", "#009966">>
              [] c = "n" -> <<"Kyuukou", "kyuu", "#0033FF">>
              [] c = "o" -> <<"Futsuu", "fu", "#000000">>
              [] c = "p" -> <<"Tokkyuu", "toku", "#FF0033">>
              [] c = "q" -> <<"Airport-Kaitoku", "E", "#EE7A00">>]
    ELSE
        [c \in {"k","l","m","n","o"} |->
            CASE c = "k" -> <<"Access-Tokkyuu", "A", "#EE7A00">>
              [] c = "l" -> <<"Futsuu", "fu", "#000000">>
              [] c = "m" -> <<"Kaisoku", "kai", "#FC82FC">>
              [] c = "n" -> <<"Tokkyuu", "toku", "#FF0033">>
              [] c = "o" -> <<"Kaitoku", "kai", "#009966">>]

\* destination_map: legend text -> destination code
destination_map(v) ==
    IF v = "main" THEN
        [g \in {"Imba-Nihon-Idai","idai","Shibayama-Chiyoda","shiba",
                "Inzai-Makinohara","in","Oshiage","oshi","Keisei-Takasago",
                "taka","Keisei-Sakura","sa","Keisei-Narita","nari",
                "Sogosando","sou","Narita-Kuukou","kuu","Aoto","ao",
                "Sengakuji","dot"} |->
            CASE g \in {"Imba-Nihon-Idai","idai"} -> "a"
              [] g \in {"Shibayama-Chiyoda","shiba"} -> "b"
              [] g \in {"Inzai-Makinohara","in"} -> "c"
              [] g \in {"Oshiage","oshi"} -> "d"
              [] g \in {"Keisei-Takasago","taka"} -> "e"
              [] g \in {"Keisei-Sakura","sa"} -> "f"
              [] g \in {"Keisei-Narita","nari"} -> "g"
              [] g \in {"Sogosando","sou"} -> "h"
              [] g \in {"Narita-Kuukou","kuu"} -> "i"
              [] g \in {"Aoto","ao","Sengakuji","dot"} -> "j"]
    ELSE IF v = "nishimagome" THEN
        [g \in {"Haneda-Kuukou","hane","Keikyuu-Kurihama","hisa","ku",
                "Miurakaigan","umi","Misakiguchi","san","Kanagawa-Shinmachi",
                "kami","shin","Sengakuji","sen","Asakusabashi","kusa","asa",
                "Shinagawa","shina","Kanazawa-Bunko","bun","Zushi-Hayama",
                "zu","c1","c2"} |->
            CASE g \in {"Haneda-Kuukou","hane"} -> "a"
              [] g \in {"Keikyuu-Kurihama","hisa","ku"} -> "b"
              [] g \in {"Miurakaigan","umi"} -> "c"
              [] g \in {"Misakiguchi","san"} -> "d"
              [] g \in {"Kanagawa-Shinmachi","kami","shin"} -> "e"
              [] g \in {"Sengakuji","sen"} -> "h"
              [] g \in {"Asakusabashi","kusa","asa"} -> "i"
              [] g \in {"Shinagawa","shina"} -> "j"
              [] g \in {"Kanazawa-Bunko","bun"} -> "k"
              [] g \in {"Zushi-Hayama","zu"} -> "l"
              [] g = "c1" -> "f"
              [] g = "c2" -> "g"]
    ELSE
        [g \in {"Imba-Nihon-Idai","idai","Shibayama-Chiyoda","shiba",
                "Inzai-Makinohara","in","Oshiage","oshi","Keisei-Takasago",
                "taka","Keisei-Sakura","sa","Keisei-Narita","nari",
                "Narita-Kuukou","kuu","Aoto","ao","Sengakuji","dot"} |->
            CASE g \in {"Imba-Nihon-Idai","idai"} -> "a"
              [] g \in {"Shibayama-Chiyoda","shiba"} -> "b"
              [] g \in {"Inzai-Makinohara","in"} -> "c"
              [] g \in {"Oshiage","oshi"} -> "d"
              [] g \in {"Keisei-Takasago","taka"} -> "e"
              [] g \in {"Keisei-Sakura","sa"} -> "f"
              [] g \in {"Keisei-Narita","nari"} -> "g"
              [] g \in {"Narita-Kuukou","kuu"} -> "h"
              [] g \in {"Aoto","ao"} -> "i"
              [] g \in {"Sengakuji","dot"} -> "j"]

\* train_type_symbols: the legend glyphs the destination scan skips
train_type_symbols(v) ==
    IF v = "main" THEN {"A", "soku", "tsuu", "toku", "kai", "E"}
    ELSE IF v = "nishimagome" THEN {"kai", "kyuu", "toku", "E"}
    ELSE {"A", "soku", "toku", "kai"}

\* default_destination with the code Aoto has in the oshiage converter
default_destination_aoto_i(v) ==
    IF v = "nishimagome" THEN "f" ELSE "i"

\* the destination a block has before (or without) any legend match
default_destination(v) ==
    IF v = "nishimagome" THEN "f" ELSE "j"

\* the train type a block has before any colour or legend rule applies
default_train_type(v) ==
    IF v = "oshiage" THEN "l" ELSE "o"

(***************************************************************************)
(* Text helpers                                                            *)
(***************************************************************************)

Range(s) == {s[i] : i \in 1..Len(s)}

\* the blank characters: a space and a line break
Whitespace == {" ", "\n"}

\* str.strip(): drops the leading and the trailing blank tokens
RECURSIVE lstrip(_)
lstrip(t) ==
    IF t # <<>> /\ Head(t) \in Whitespace THEN lstrip(Tail(t)) ELSE t

RECURSIVE rstrip(_)
rstrip(t) ==
    IF t # <<>> /\ t[Len(t)] \in Whitespace
    THEN rstrip(SubSeq(t, 1, Len(t) - 1)) ELSE t

strip(t) == rstrip(lstrip(t))

Digits == {"0", "1", "2", "3", "4", "5", "6", "7", "8", "9"}

DigitValue(d) ==
    CASE d = "0" -> 0 [] d = "1" -> 1 [] d = "2" -> 2 [] d = "3" -> 3
      [] d = "4" -> 4 [] d = "5" -> 5 [] d = "6" -> 6 [] d = "7" -> 7
      [] d = "8" -> 8 [] d = "9" -> 9

\* str.isdigit(): non-empty and every character a digit
isdigit(t) == t # <<>> /\ \A i \in 1..Len(t) : t[i] \in Digits

\* int(str) of a string of digits
RECURSIVE int(_)
int(t) ==
    IF t = <<>> THEN 0
    ELSE 10 * int(SubSeq(t, 1, Len(t) - 1)) + DigitValue(t[Len(t)])

(***************************************************************************)
(* extract_timetable: one trip block (div.wrapTime)                        *)
(*   a block is [classes, legend_elem, spans, time_elem, time_text]        *)
(***************************************************************************)

\* the legends list of a block: the non-empty span texts of its wrapLegend
block_legends(b) ==
    IF b.legend_elem THEN SelectSeq(b.spans, LAMBDA t : t # "") ELSE <<>>

\* main and oshiage: the scan that stops at the first destination glyph
RECURSIVE scan_destination(_, _, _)
scan_destination(v, legends, destination) ==
    IF legends = <<>> THEN destination
    ELSE IF Head(legends) \in train_type_symbols(v)
         THEN scan_destination(v, Tail(legends), destination)
    ELSE IF Head(legends) \in DOMAIN destination_map(v)
         THEN destination_map(v)[Head(legends)]
    ELSE scan_destination(v, Tail(legends), destination)

\* nishimagome: the scan over all legends; st is <<destination, platform>>
RECURSIVE scan_platform(_, _)
scan_platform(legends, st) ==
    IF legends = <<>> THEN st
    ELSE IF Head(legends) \in train_type_symbols("nishimagome")
         THEN scan_platform(Tail(legends), st)
    ELSE IF Head(legends) = "c1"
         THEN scan_platform(Tail(legends), <<st[1], "f">>)
    ELSE IF Head(legends) = "c2"
         THEN scan_platform(Tail(legends), <<st[1], "g">>)
    ELSE IF Head(legends) \in DOMAIN destination_map("nishimagome")
         THEN scan_platform(Tail(legends),
                  <<destination_map("nishimagome")[Head(legends)], st[2]>>)
    ELSE scan_platform(Tail(legends), st)

\* resolve_platform with the track glyph taking priority
resolve_platform_track_first(st) ==
    IF st[2] # "None" THEN st[2]
    ELSE IF st[1] # "None" THEN st[1]
    ELSE default_destination("nishimagome")

\* nishimagome: destination, else platform, else the default
resolve_platform(st) ==
    IF st[1] = "None"
    THEN IF st[2] # "None" THEN st[2] ELSE default_destination("nishimagome")
    ELSE st[1]

\* the destination code of a block with these legends
block_destination(v, legends) ==
    IF v = "nishimagome"
    THEN resolve_platform(scan_platform(legends, <<"None", "None">>))
    ELSE scan_destination(v, legends, default_destination(v))

\* color_type_main with the red and the orange test in the other order
color_type_main_orange_first(classes) ==
    IF "color-pink" \in classes THEN "p"
    ELSE IF "color-orange" \in classes THEN "k"
    ELSE IF "color-red" \in classes THEN "q"
    ELSE IF "color-green" \in classes THEN "r"
    ELSE IF "color-blue" \in classes THEN "n"
    ELSE default_train_type("main")

\* main: the colour chain pink, red, orange, green, blue
color_type_main(classes) ==
    IF "color-pink" \in classes THEN "p"
    ELSE IF "color-red" \in classes THEN "q"
    ELSE IF "color-orange" \in classes THEN "k"
    ELSE IF "color-green" \in classes THEN "r"
    ELSE IF "color-blue" \in classes THEN "n"
    ELSE default_train_type("main")

\* airport_type_main without the test of the destination
airport_type_main_any_destination(classes, destination) ==
    IF "color-orange" \in classes THEN "m" ELSE "l"

\* main: the airport kaitoku rule
airport_type_main(classes, destination) ==
    IF "color-orange" \in classes /\ destination = "i" THEN "m" ELSE "l"

\* color_type_nishimagome with the code color-orange has in the main converter
color_type_nishimagome_orange_k(classes) ==
    IF "color-green" \in classes THEN "m"
    ELSE IF "color-blue" \in classes THEN "n"
    ELSE IF "color-red" \in classes THEN "p"
    ELSE IF "color-orange" \in classes THEN "k"
    ELSE default_train_type("nishimagome")

\* nishimagome: the colour chain green, blue, red, orange
color_type_nishimagome(classes) ==
    IF "color-green" \in classes THEN "m"
    ELSE IF "color-blue" \in classes THEN "n"
    ELSE IF "color-red" \in classes THEN "p"
    ELSE IF "color-orange" \in classes THEN "q"
    ELSE default_train_type("nishimagome")

\* oshiage: the colour chain pink, red, orange, green
color_type_oshiage(classes) ==
    IF "color-pink" \in classes THEN "m"
    ELSE IF "color-red" \in classes THEN "n"
    ELSE IF "color-orange" \in classes THEN "k"
    ELSE IF "color-green" \in classes THEN "o"
    ELSE default_train_type("oshiage")

\* the train type code of a block
block_train_type(v, legends, classes, destination) ==
    IF v = "main" THEN
        IF "E" \in Range(legends)
        THEN airport_type_main(classes, destination)
        ELSE color_type_main(classes)
    ELSE IF v = "nishimagome" THEN
        IF "E" \in Range(legends) THEN "q"
        ELSE color_type_nishimagome(classes)
    ELSE color_type_oshiage(classes)

Placeholder == <<"FWHYPHEN">>

\* the minute label read from the time element
block_minute(v, b) ==
    IF v = "nishimagome" THEN b.time_text ELSE strip(b.time_text)

\* skips_placeholder without the test: no block is skipped
skips_placeholder_never(v, minute) == FALSE

\* skips_placeholder in every converter, the oshiage one included
skips_placeholder_always(v, minute) == minute = Placeholder

\* whether the block is skipped because its minute is the placeholder
skips_placeholder(v, minute) ==
    v # "oshiage" /\ minute = Placeholder

\* block_times without the test of the time element
block_times_without_time_test(v, b) ==
    LET legends     == block_legends(b)
        destination == block_destination(v, legends)
        train_type  == block_train_type(v, legends, b.classes, destination)
        minute      == block_minute(v, b)
    IN  IF ~skips_placeholder(v, minute)
        THEN << [minute |-> minute, train_type |-> train_type,
                 destination |-> destination, legends |-> legends] >>
        ELSE <<>>

\* the trips one block appends to times: none or one
block_times(v, b) ==
    LET legends     == block_legends(b)
        destination == block_destination(v, legends)
        train_type  == block_train_type(v, legends, b.classes, destination)
        minute      == block_minute(v, b)
    IN  IF b.time_elem /\ ~skips_placeholder(v, minute)
        THEN << [minute |-> minute, train_type |-> train_type,
                 destination |-> destination, legends |-> legends] >>
        ELSE <<>>

\* the times list of a row: the loop over its trip blocks
RECURSIVE row_times(_, _)
row_times(v, wrap_times) ==
    IF wrap_times = <<>> THEN <<>>
    ELSE block_times(v, Head(wrap_times)) \o row_times(v, Tail(wrap_times))

(***************************************************************************)
(* The timetable dict: a sequence of [hour, times] with distinct hours,    *)
(* in insertion order                                                      *)
(***************************************************************************)

dict_keys(tt) == [i \in 1..Len(tt) |-> tt[i].hour]

dict_has(tt, hour) == \E i \in 1..Len(tt) : tt[i].hour = hour

dict_get(tt, hour) == tt[CHOOSE i \in 1..Len(tt) : tt[i].hour = hour].times

\* dict_set that extends the list of an hour already present
dict_set_extends(tt, hour, times) ==
    IF dict_has(tt, hour)
    THEN [i \in 1..Len(tt) |->
            IF tt[i].hour = hour
            THEN [hour |-> hour, times |-> tt[i].times \o times]
            ELSE tt[i]]
    ELSE Append(tt, [hour |-> hour, times |-> times])

\* timetable[hour] = times: replaces in place, or appends a new key
dict_set(tt, hour, times) ==
    IF dict_has(tt, hour)
    THEN [i \in 1..Len(tt) |->
            IF tt[i].hour = hour THEN [hour |-> hour, times |-> times]
            ELSE tt[i]]
    ELSE Append(tt, [hour |-> hour, times |-> times])

(***************************************************************************)
(* extract_timetable: one table row                                        *)
(*   a row is [th, th_text, td, wrap_times]                                *)
(***************************************************************************)

\* whether the row has its hour cell and its data cell
row_matches(v, row) ==
    IF v = "nishimagome"
    THEN row.th /\ row.td /\ isdigit(row.th_text)
    ELSE row.th /\ row.td

\* the hour label of a row
row_hour(v, row) ==
    IF v = "nishimagome" THEN row.th_text ELSE strip(row.th_text)

\* register_times without the test of times
register_times_always(tt, hour, times) == dict_set(tt, hour, times)

\* if times: timetable[hour] = times
register_times(tt, hour, times) ==
    IF times # <<>> THEN dict_set(tt, hour, times) ELSE tt

\* the body of the loop over the rows
register_row(v, tt, row) ==
    IF ~row_matches(v, row) THEN tt
    ELSE register_times(tt, row_hour(v, row), row_times(v, row.wrap_times))

\* the table the converter takes its rows from is found together with its
\* body: the bs4 converters look for table.tt-table and its tbody, the
\* nishimagome converter for the first tbody of the document
tbody_found(v, doc) ==
    IF v = "nishimagome" THEN doc.table # "none" /\ doc.tbody
    ELSE doc.table = "tt-table" /\ doc.tbody

\* the loop over the rows
RECURSIVE extract_rows(_, _, _)
extract_rows(v, tt, rows) ==
    IF rows = <<>> THEN tt
    ELSE extract_rows(v, register_row(v, tt, Head(rows)), Tail(rows))

\* extract_timetable of a document
extract_timetable(v, doc) ==
    IF ~tbody_found(v, doc) THEN <<>>
    ELSE extract_rows(v, <<>>, doc.rows)

(***************************************************************************)
(* extract_station_info                                                    *)
(*   a document has [h1, h1_text], an active direction item                *)
(*   [dir_li, dir_a, dir_text], an active day item [day_li, day_a,         *)
(*   day_text]; dir_next and day_next are the text of the first link that  *)
(*   follows the item in the document (empty when there is none)           *)
(***************************************************************************)

\* the text of the link of an active item:
\*   bs4: li.find('a').text.strip(), an AttributeError when find gives None;
\*   nishimagome: the regex item .*? link, which runs on to the next link
link_text(v, li, a, text, next) ==
    IF ~li THEN [found |-> FALSE, raised |-> FALSE, text |-> <<>>]
    ELSE IF a THEN [found |-> TRUE, raised |-> FALSE, text |-> strip(text)]
    ELSE IF v = "nishimagome"
         THEN IF next # <<>>
              THEN [found |-> TRUE, raised |-> FALSE, text |-> strip(next)]
              ELSE [found |-> FALSE, raised |-> FALSE, text |-> <<>>]
    ELSE [found |-> FALSE, raised |-> TRUE, text |-> <<>>]

\* day_type_of with the two tests in the other order
day_type_of_holiday_first(day_text) ==
    IF "doyou" \in Range(day_text) \/ "kyuujitsu" \in Range(day_text)
    THEN "holiday"
    ELSE IF "heijitsu" \in Range(day_text) THEN "weekday"
    ELSE ""

\* the day type of the text of the active day tab
day_type_of(day_text) ==
    IF "heijitsu" \in Range(day_text) THEN "weekday"
    ELSE IF "doyou" \in Range(day_text) \/ "kyuujitsu" \in Range(day_text)
         THEN "holiday"
    ELSE ""

\* extract_station_info: raised tells that the call ended in an exception
extract_station_info(v, doc) ==
    LET direction == link_text(v, doc.dir_li, doc.dir_a, doc.dir_text,
                               doc.dir_next)
        day       == link_text(v, doc.day_li, doc.day_a, doc.day_text,
                               doc.day_next)
    IN  [raised |-> direction.raised \/ day.raised,
         info   |-> [name      |-> IF doc.h1 THEN strip(doc.h1_text) ELSE <<>>,
                     direction |-> direction.text,
                     day_type  |-> IF day.found THEN day_type_of(day.text)
                                   ELSE ""]]

(***************************************************************************)
(* extract_legends                                                         *)
(*   a legend section is [head, head_text, items]; an item is              *)
(*   [plain, text], plain when the li holds text only                      *)
(***************************************************************************)

\* whether the heading of the section is found
head_found(v, section) ==
    IF v = "nishimagome" THEN section.head /\ section.head_text # <<>>
    ELSE section.head

\* the bucket the items of a section go to
section_bucket(head_text) ==
    IF "shubetsu" \in Range(head_text) THEN "train_types"
    ELSE IF "ikisaki" \in Range(head_text) THEN "destinations"
    ELSE IF "setsuzoku" \in Range(head_text) THEN "connections"
    ELSE "none"

\* the item texts of a section: bs4 takes every li, the nishimagome regex
\* the li that hold text only
section_items(v, section) ==
    LET items == IF v = "nishimagome"
                 THEN SelectSeq(section.items, LAMBDA item : item.plain)
                 ELSE section.items
    IN  [i \in 1..Len(items) |-> strip(items[i].text)]

\* the loop over the items of one section
add_section(v, legends, section) ==
    IF ~head_found(v, section) THEN legends
    ELSE LET bucket == section_bucket(strip(section.head_text))
         IN  IF bucket = "none" THEN legends
             ELSE [legends EXCEPT ![bucket] = @ \o section_items(v, section)]

RECURSIVE add_sections(_, _, _)
add_sections(v, legends, sections) ==
    IF sections = <<>> THEN legends
    ELSE add_sections(v, add_section(v, legends, Head(sections)),
                      Tail(sections))

extract_legends(v, doc) ==
    add_sections(v, [train_types |-> <<>>, destinations |-> <<>>,
                     connections |-> <<>>], doc.sections)

\* parse_html of a document whose station info is extracted without error
parse_html(v, doc) ==
    [station   |-> extract_station_info(v, doc).info,
     timetable |-> extract_timetable(v, doc),
     legends   |-> extract_legends(v, doc)]

(***************************************************************************)
(* convert_to_nexttrain                                                    *)
(***************************************************************************)

CodeOrder == <<"a","b","c","d","e","f","g","h","i","j","k","l","m","n","o",
               "p","q","r">>

\* sorted(d.keys()) of single-letter codes
sorted_codes(codes) == SelectSeq(CodeOrder, LAMBDA c : c \in codes)

destination_lines(v) ==
    LET codes == sorted_codes(DOMAIN destination_definitions(v))
    IN  [i \in 1..Len(codes) |->
            <<codes[i], ":", destination_definitions(v)[codes[i]][1], ";",
              destination_definitions(v)[codes[i]][2]>>]

train_type_lines(v) ==
    LET codes == sorted_codes(DOMAIN train_type_definitions(v))
    IN  [i \in 1..Len(codes) |->
            <<codes[i], ":", train_type_definitions(v)[codes[i]][1], ";",
              train_type_definitions(v)[codes[i]][2], ";",
              train_type_definitions(v)[codes[i]][3]>>]

day_header(day_type) ==
    IF day_type = "weekday" THEN <<"[MON][TUE][WED][THU][FRI]">>
    ELSE <<"[SAT][SUN][HOL]">>

day_type_text(day_type) ==
    IF day_type = "weekday" THEN "heijitsu" ELSE "dokyuujitsu"

\* direction.split(SEP)[0]
RECURSIVE first_segment(_)
first_segment(direction) ==
    IF direction = <<>> \/ Head(direction) = "SEP" THEN <<>>
    ELSE <<Head(direction)>> \o first_segment(Tail(direction))

\* title_direction without the suffix after the first segment
title_direction_no_suffix(direction) ==
    IF "SEP" \in Range(direction) THEN first_segment(direction)
    ELSE direction

title_direction(direction) ==
    IF "SEP" \in Range(direction)
    THEN first_segment(direction) \o <<"houmen">>
    ELSE direction

title_line(st) ==
    <<"# ">> \o st.name \o <<"eki ">> \o title_direction(st.direction)
        \o <<"(", day_type_text(st.day_type), ")">>

\* sort_hour without the remapping of the hours 0 and 1
sort_hour_no_remap(hour_str) ==
    IF ~isdigit(hour_str) THEN 0 ELSE int(hour_str)

\* main and nishimagome: hours 0 and 1 count as 24 and 25
sort_hour(hour_str) ==
    IF ~isdigit(hour_str) THEN 0
    ELSE IF int(hour_str) <= 1 THEN int(hour_str) + 24
    ELSE int(hour_str)

\* sort_hour_oshiage with the remapping of the other two converters
sort_hour_oshiage_remap(x) ==
    IF ~isdigit(x) THEN 0
    ELSE IF int(x) <= 1 THEN int(x) + 24
    ELSE int(x)

\* oshiage: lambda x: int(x) if x.isdigit() else 0
sort_hour_oshiage(x) ==
    IF isdigit(x) THEN int(x) ELSE 0

hour_key(v, hour) ==
    IF v = "oshiage" THEN sort_hour_oshiage(hour) ELSE sort_hour(hour)

\* sorted() is stable: x goes after every element whose key is not larger
RECURSIVE insert_by_key(_, _, _)
insert_by_key(v, sorted, x) ==
    IF sorted = <<>> THEN <<x>>
    ELSE IF hour_key(v, Head(sorted)) <= hour_key(v, x)
         THEN <<Head(sorted)>> \o insert_by_key(v, Tail(sorted), x)
    ELSE <<x>> \o sorted

RECURSIVE sort_prefix(_, _, _)
sort_prefix(v, keys, n) ==
    IF n = 0 THEN <<>>
    ELSE insert_by_key(v, sort_prefix(v, keys, n - 1), keys[n])

\* sorted(timetable.keys(), key=...)
sorted_hours(v, tt) == sort_prefix(v, dict_keys(tt), Len(tt))

\* time_entry with the destination code before the train type code
time_entry_destination_first(time_data) ==
    <<time_data.destination, time_data.train_type>> \o time_data.minute

\* f"{train_type}{destination}{minute}"
time_entry(time_data) ==
    <<time_data.train_type, time_data.destination>> \o time_data.minute

\* sep.join(parts)
RECURSIVE join(_, _)
join(sep, parts) ==
    IF parts = <<>> THEN <<>>
    ELSE IF Len(parts) = 1 THEN parts[1]
    ELSE parts[1] \o <<sep>> \o join(sep, Tail(parts))

\* f"{hour}: {' '.join(time_entries)}"
hour_line(hour, times) ==
    hour \o <<": ">> \o join(" ", [i \in 1..Len(times) |-> time_entry(times[i])])

\* the hour lines of one timetable; an hour with no times is skipped
hour_lines(v, tt) ==
    LET hours == SelectSeq(sorted_hours(v, tt),
                           LAMBDA h : dict_get(tt, h) # <<>>)
    IN  [i \in 1..Len(hours) |-> hour_line(hours[i], dict_get(tt, hours[i]))]

\* the lines of one parsed document
document_lines(v, parsed_data) ==
    << <<>>, day_header(parsed_data.station.day_type),
       title_line(parsed_data.station) >>
        \o hour_lines(v, parsed_data.timetable)

\* documents_lines with the block of a document put after the blocks of the
\* documents that follow it
RECURSIVE documents_lines_reversed(_, _)
documents_lines_reversed(v, parsed_data_list) ==
    IF parsed_data_list = <<>> THEN <<>>
    ELSE documents_lines_reversed(v, Tail(parsed_data_list))
            \o document_lines(v, Head(parsed_data_list))

RECURSIVE documents_lines(_, _)
documents_lines(v, parsed_data_list) ==
    IF parsed_data_list = <<>> THEN <<>>
    ELSE document_lines(v, Head(parsed_data_list))
            \o documents_lines(v, Tail(parsed_data_list))

\* nexttrain_lines with the train type lines before the destination lines
nexttrain_lines_types_first(v, parsed_data_list) ==
    train_type_lines(v) \o destination_lines(v)
        \o documents_lines(v, parsed_data_list)

nexttrain_lines(v, parsed_data_list) ==
    destination_lines(v) \o train_type_lines(v)
        \o documents_lines(v, parsed_data_list)

\* convert_to_nexttrain with lines kept from the call before instead of
\* starting from the empty list
convert_to_nexttrain_keeps_lines(v, parsed_data_list) ==
    (IF output = <<>> THEN <<>> ELSE output \o <<"\n">>)
        \o join("\n", nexttrain_lines(v, parsed_data_list))

convert_to_nexttrain(v, parsed_data_list) ==
    join("\n", nexttrain_lines(v, parsed_data_list))

(***************************************************************************)
(* Inputs                                                                  *)
(***************************************************************************)

MaxRows == 3
MaxLegends == 2
MaxHours == 4

SeqsUpTo(S, n) == UNION {[1..k -> S] : k \in 0..n}

Colors ==
    {"color-pink", "color-red", "color-orange", "color-green", "color-blue"}

\* span texts: an empty span, train type symbols, destination glyphs of the
\* three destination maps, and the two track glyphs
Glyphs == {"", "E", "A", "kuu", "oshi", "c1", "c2", "hane", "shina"}

TimeTexts == {<<"15">>, Placeholder}

Block(classes, legend_elem, spans, time_elem, time_text) ==
    [classes |-> classes, legend_elem |-> legend_elem, spans |-> spans,
     time_elem |-> time_elem, time_text |-> time_text]

Row(th, th_text, td, wrap_times) ==
    [th |-> th, th_text |-> th_text, td |-> td, wrap_times |-> wrap_times]

\* the trip blocks of the rows of a document: a plain one, a placeholder,
\* one without a time element, and one with a padded time text
BlockPlain == Block({}, FALSE, <<>>, TRUE, <<"15">>)

BlockPlaceholder ==
    Block({"color-orange"}, TRUE, <<"E", "kuu">>, TRUE, Placeholder)

BlockNoTime == Block({"color-red"}, TRUE, <<"A">>, FALSE, <<>>)

BlockPadded == Block({"color-red"}, TRUE, <<"oshi">>, TRUE, <<" ", "30">>)

\* the data cells of the rows of a document
ExtractWrapTimes ==
    { <<>>, <<BlockPlain>>, <<BlockPlaceholder>>, <<BlockNoTime>>,
      <<BlockPlaceholder, BlockPlaceholder>>,
      <<BlockNoTime, BlockPlaceholder>>,
      <<BlockPadded, BlockPlain>>,
      <<BlockPlain, BlockPlaceholder, BlockPadded>> }

ExtractHours == {<<"5">>, <<"6">>}

ExtractRows ==
    {Row(TRUE, h, TRUE, w) : h \in ExtractHours, w \in ExtractWrapTimes}
    \cup {Row(FALSE, <<>>, TRUE, <<BlockPlain>>),
          Row(TRUE, <<"5">>, FALSE, <<>>)}

\* hour labels: numeric, with a leading zero, non-numeric and empty
HourLabels ==
    {<<"0">>, <<"1">>, <<"3">>, <<"2", "3">>, <<"0", "1">>, <<"x">>, <<>>}

HourRows ==
    {Row(TRUE, h, TRUE, <<BlockPlain>>) : h \in HourLabels}

StationInfos ==
    { [name |-> <<"Sengakuji">>, direction |-> <<"Oshiage", "SEP", "Keisei">>,
       day_type |-> "weekday"],
      [name |-> <<>>, direction |-> <<>>, day_type |-> ""] }

NoRow == Row(FALSE, <<>>, FALSE, <<>>)

MaxDocs == 2

\* an active item of a tab list: the li, its link, the text of the link, and
\* the text of the first link after the item
Tab(li, a, text, next) == [li |-> li, a |-> a, text |-> text, next |-> next]

NoTab == Tab(FALSE, FALSE, <<>>, <<>>)

Station(h1, h1_text, direction, day) ==
    [h1 |-> h1, h1_text |-> h1_text,
     dir_li |-> direction.li, dir_a |-> direction.a,
     dir_text |-> direction.text, dir_next |-> direction.next,
     day_li |-> day.li, day_a |-> day.a, day_text |-> day.text,
     day_next |-> day.next]

\* a document: its station part, its table and its legend sections
Document(st, table, tbody, rows, sections) ==
    [h1 |-> st.h1, h1_text |-> st.h1_text,
     dir_li |-> st.dir_li, dir_a |-> st.dir_a, dir_text |-> st.dir_text,
     dir_next |-> st.dir_next,
     day_li |-> st.day_li, day_a |-> st.day_a, day_text |-> st.day_text,
     day_next |-> st.day_next,
     table |-> table, tbody |-> tbody, rows |-> rows, sections |-> sections]

Section(head, head_text, items) ==
    [head |-> head, head_text |-> head_text, items |-> items]

Item(plain, text) == [plain |-> plain, text |-> text]

\* the station parts of a weekday page, of a holiday page with padded
\* texts, and of a page with no heading and no active item
StationWeekday ==
    Station(TRUE, <<"Sengakuji">>,
            Tab(TRUE, TRUE, <<"Oshiage", "SEP", "Keisei">>, <<>>),
            Tab(TRUE, TRUE, <<"heijitsu">>, <<>>))

StationHoliday ==
    Station(TRUE, <<" ", "Asakusa", "\n">>,
            Tab(TRUE, TRUE, <<"Nishimagome">>, <<>>),
            Tab(TRUE, TRUE, <<"doyou", "SEP", "kyuujitsu">>, <<>>))

StationNone == Station(FALSE, <<>>, NoTab, NoTab)

\* a trip block whose time text ends with a line break
BlockTrailing == Block({"color-green"}, FALSE, <<>>, TRUE, <<"45", "\n">>)

SectionTypes ==
    Section(TRUE, <<"shubetsu">>, <<Item(TRUE, <<"kai">>)>>)

\* the documents of a run of several files
DocWeekday ==
    Document(StationWeekday, "tt-table", TRUE,
             << Row(TRUE, <<"5">>, TRUE, <<BlockPlain>>),
                Row(TRUE, <<"0">>, TRUE, <<BlockPadded, BlockPlain>>) >>,
             <<SectionTypes>>)

DocHoliday ==
    Document(StationHoliday, "tt-table", TRUE,
             << Row(TRUE, <<"6">>, TRUE, <<BlockPlain, BlockPlaceholder>>) >>,
             <<>>)

DocNoTable == Document(StationWeekday, "none", FALSE, <<>>, <<SectionTypes>>)

DocEmpty == Document(StationNone, "tt-table", TRUE, <<>>, <<>>)

DocTrailing ==
    Document(StationHoliday, "tt-table", TRUE,
             << Row(TRUE, <<"7">>, TRUE, <<BlockPlain, BlockTrailing>>) >>,
             <<>>)

Documents == {DocWeekday, DocHoliday, DocNoTable, DocEmpty, DocTrailing}

MaxSections == 2

\* heading texts, plain and padded
NameTexts == { <<"Sengakuji">>, <<" ", "Asakusa", "\n">> }

\* texts of the link of the active direction item: one segment, several
\* segments, padded, and with an empty first or last segment
DirectionTexts ==
    { <<"Oshiage">>, <<"Oshiage", "SEP", "Keisei", "SEP", "Hokusou">>,
      <<" ", "Nishimagome", "SEP", "Keikyuu", " ">>,
      <<"SEP", "Keisei">>, <<"Oshiage", "SEP">> }

\* texts of the link of the active day item
DayTexts ==
    { <<"heijitsu">>, <<"doyou">>, <<"kyuujitsu">>,
      <<"doyou", "SEP", "kyuujitsu">>, <<"heijitsu", "SEP", "doyou">>,
      <<"daiya">>, <<" ", "heijitsu", "daiya", " ">> }

\* the active direction item: absent, with its link, or without a link and
\* followed or not by another link of the document
DirectionTabs ==
    {NoTab} \cup {Tab(TRUE, TRUE, t, <<>>) : t \in DirectionTexts}
        \cup {Tab(TRUE, FALSE, <<>>, n) : n \in {<<>>, <<"Nishimagome">>}}

DayTabs ==
    {NoTab} \cup {Tab(TRUE, TRUE, t, <<>>) : t \in DayTexts}
        \cup {Tab(TRUE, FALSE, <<>>, n) : n \in {<<>>, <<"heijitsu">>}}

\* the rows of a table: two rows with trips, a row without hour cell, a row
\* without data cell, a row whose only block has no time element
TableRows ==
    { Row(TRUE, <<"5">>, TRUE, <<BlockPlain>>),
      Row(TRUE, <<"6">>, TRUE, <<BlockPadded, BlockPlain>>),
      Row(FALSE, <<>>, TRUE, <<BlockPlain>>),
      Row(TRUE, <<"7">>, FALSE, <<>>),
      Row(TRUE, <<"5">>, TRUE, <<BlockNoTime>>) }

\* the rows of a table that repeats hour labels: two labels, a label that
\* differs from the first by a leading blank only, and data cells that yield
\* one trip, two trips or none
RepeatWrapTimes ==
    { <<>>, <<BlockPlain>>, <<BlockPadded, BlockPlain>>, <<BlockPlaceholder>>,
      <<BlockNoTime>> }

RepeatRows ==
    {Row(TRUE, h, TRUE, w) : h \in ExtractHours, w \in RepeatWrapTimes}
        \cup {Row(TRUE, <<" ", "5">>, TRUE, <<BlockPadded>>)}

\* the legend lists of a trip block without time element
UntimedLegends == SeqsUpTo(Glyphs, 1) \cup {<<"E", "kuu">>, <<"c1", "hane">>}

\* the table of a document: the marked table, a table without the marker
\* class, or no table
Tables == {"tt-table", "other", "none"}

\* the headings of a legend section
HeadTexts ==
    { <<"shubetsu">>, <<" ", "ikisaki", " ">>, <<"setsuzoku", "tou">>,
      <<"ikisaki", "SEP", "shubetsu">>, <<"setsuzoku", "ikisaki">>,
      <<"sonota">> }

\* the items of a legend section; the item "d" holds markup besides its text
ItemLists ==
    { <<>>, <<Item(TRUE, <<"a">>)>>,
      <<Item(TRUE, <<" ", "b", " ">>), Item(TRUE, <<"c">>)>>,
      <<Item(FALSE, <<"d">>), Item(TRUE, <<"a">>)>> }

Sections ==
    {Section(TRUE, h, items) : h \in HeadTexts, items \in ItemLists}
        \cup {Section(FALSE, <<>>, items) : items \in ItemLists}

(***************************************************************************)
(* The state machine                                                       *)
(***************************************************************************)

Init ==
    /\ variant \in Variants
    /\ pc = "extract"
    /\ station \in StationInfos
    /\ timetable = <<>>
    /\ rowsDone = 0
    /\ lastRow = NoRow
    /\ output = <<>>
    /\ documents = <<>>
    /\ parsed_documents = <<>>
    /\ output2 = <<>>

\* extract_timetable reads the next row of the table
ProcessRow(row) ==
    /\ pc = "extract"
    /\ documents = <<>>
    /\ timetable' = register_row(variant, timetable, row)
    /\ lastRow' = row
    /\ rowsDone' = rowsDone + 1
    /\ UNCHANGED <<variant, pc, station, output, documents, parsed_documents,
                   output2>>

\* the table is exhausted: the parsed document is serialized
Serialize ==
    /\ pc = "extract"
    /\ documents = <<>>
    /\ pc' = "done"
    /\ output' = convert_to_nexttrain(variant,
                    << [station |-> station, timetable |-> timetable] >>)
    /\ UNCHANGED <<variant, station, timetable, rowsDone, lastRow, documents,
                   parsed_documents, output2>>

ExtractRow ==
    /\ rowsDone < MaxRows
    /\ \E row \in ExtractRows : ProcessRow(row)

Next == ExtractRow \/ Serialize

Spec == Init /\ [][Next]_vars

\* one row holding one trip block, over every block built from Colors,
\* Glyphs and TimeTexts; an empty time text stands for no time element
ClassifyRow ==
    /\ rowsDone = 0
    /\ \E c \in SUBSET Colors, legend_elem \in BOOLEAN,
          l \in SeqsUpTo(Glyphs, MaxLegends), t \in TimeTexts \cup {<<>>} :
            /\ legend_elem \/ l = <<>>
            /\ ProcessRow(Row(TRUE, <<"5">>, TRUE,
                              <<Block(c, legend_elem, l, t # <<>>, t)>>))

NextClassify == ClassifyRow

SpecClassify == Init /\ [][NextClassify]_vars

\* every legend text the converters know: the keys of the three destination
\* maps and the train type symbols, with an empty span and an unknown glyph
AllGlyphs ==
    UNION {DOMAIN destination_map(v) \cup train_type_symbols(v) : v \in Variants}
        \cup {"", "x"}

\* the glyphs that follow the first glyph of a legend list
SecondGlyphs == {"E", "c2"}

\* legend lists of one glyph of AllGlyphs, alone or followed by a second one
GlyphLists ==
    {<<>>} \cup {<<g>> : g \in AllGlyphs}
        \cup {<<g, h>> : g \in AllGlyphs, h \in SecondGlyphs}

\* one row holding one trip block, over every glyph of every destination map
ClassifyGlyphRow ==
    /\ rowsDone = 0
    /\ \E c \in SUBSET Colors, l \in GlyphLists, t \in TimeTexts :
            ProcessRow(Row(TRUE, <<"5">>, TRUE, <<Block(c, TRUE, l, TRUE, t)>>))

NextCodes == ClassifyGlyphRow \/ Serialize

SpecCodes == Init /\ [][NextCodes]_vars

\* rows of one trip each, over every hour label of HourLabels
HourRow ==
    /\ Len(timetable) < MaxHours
    /\ rowsDone < MaxHours
    /\ \E row \in HourRows : ProcessRow(row)

NextSerialize == HourRow \/ Serialize

SpecSerialize == Init /\ [][NextSerialize]_vars

\* main's loop over the files: parse_html of the next document; the result
\* is appended to the list, an exception ends the run
ParseDocument(doc) ==
    /\ pc = "extract"
    /\ rowsDone = 0
    /\ documents' = Append(documents, doc)
    /\ IF extract_station_info(variant, doc).raised
       THEN pc' = "error" /\ UNCHANGED parsed_documents
       ELSE /\ parsed_documents' =
                  Append(parsed_documents, parse_html(variant, doc))
            /\ UNCHANGED pc
    /\ UNCHANGED <<variant, station, timetable, rowsDone, lastRow, output,
                   output2>>

\* convert_to_nexttrain of the list of parsed documents
SerializeDocuments ==
    /\ pc = "extract"
    /\ rowsDone = 0
    /\ pc' = "done"
    /\ output' = convert_to_nexttrain(variant, parsed_documents)
    /\ UNCHANGED <<variant, station, timetable, rowsDone, lastRow, documents,
                   parsed_documents, output2>>

\* a second call of convert_to_nexttrain on the same list
SerializeAgain ==
    /\ pc = "done"
    /\ rowsDone = 0
    /\ pc' = "again"
    /\ output2' = convert_to_nexttrain(variant, parsed_documents)
    /\ UNCHANGED <<variant, station, timetable, rowsDone, lastRow, output,
                   documents, parsed_documents>>

SupplyDocument ==
    /\ Len(documents) < MaxDocs
    /\ \E doc \in Documents : ParseDocument(doc)

NextDocuments == SupplyDocument \/ SerializeDocuments \/ SerializeAgain

SpecDocuments == Init /\ [][NextDocuments]_vars

\* one document, over every heading, direction item and day item
StationDocument ==
    /\ documents = <<>>
    /\ \E h1 \in BOOLEAN, h1_text \in NameTexts, direction \in DirectionTabs,
          day \in DayTabs :
            /\ h1 \/ h1_text = <<"Sengakuji">>
            /\ ParseDocument(
                  Document(Station(h1, IF h1 THEN h1_text ELSE <<>>,
                                   direction, day),
                           "tt-table", TRUE,
                           <<Row(TRUE, <<"5">>, TRUE, <<BlockPlain>>)>>, <<>>))

\* one document, over every table of up to MaxRows rows
TableDocument ==
    /\ documents = <<>>
    /\ \E table \in Tables, tbody \in BOOLEAN,
          rows \in SeqsUpTo(TableRows, MaxRows) :
            /\ table = "none" => (~tbody /\ rows = <<>>)
            /\ ParseDocument(Document(StationWeekday, table, tbody, rows, <<>>))

\* one document, over every list of up to MaxSections legend sections
LegendDocument ==
    /\ documents = <<>>
    /\ \E sections \in SeqsUpTo(Sections, MaxSections) :
            ParseDocument(Document(StationWeekday, "tt-table", TRUE, <<>>,
                                   sections))

\* the first row of a table, any row of ExtractRows
EarlierRow ==
    /\ rowsDone = 0
    /\ \E row \in ExtractRows : ProcessRow(row)

\* a row of hour 5 holding a trip block without time element, over every
\* set of colour tokens and every legend list of UntimedLegends, alone or
\* with timed blocks before and after it; it is the first row of the table,
\* or the second one after a row of ExtractRows
UntimedRow ==
    /\ rowsDone = 0 \/ (rowsDone = 1 /\ lastRow \in ExtractRows)
    /\ \E c \in SUBSET Colors, legend_elem \in BOOLEAN, l \in UntimedLegends,
          before \in {<<>>, <<BlockPlain>>},
          after \in {<<>>, <<BlockPadded, BlockPlaceholder>>} :
            /\ legend_elem \/ l = <<>>
            /\ ProcessRow(Row(TRUE, <<"5">>, TRUE,
                    before \o <<Block(c, legend_elem, l, FALSE, <<>>)>>
                        \o after))

NextTimed == EarlierRow \/ UntimedRow

SpecTimed == Init /\ [][NextTimed]_vars

\* one document, over every table of up to MaxRows rows of RepeatRows
RepeatedRowsDocument ==
    /\ documents = <<>>
    /\ \E rows \in SeqsUpTo(RepeatRows, MaxRows) :
            ParseDocument(Document(StationWeekday, "tt-table", TRUE, rows,
                                   <<>>))

NextRows == RepeatedRowsDocument \/ SerializeDocuments

SpecRows == Init /\ [][NextRows]_vars

NextParse == StationDocument \/ TableDocument \/ SerializeDocuments

SpecParse == Init /\ [][NextParse]_vars

NextLegends == LegendDocument

SpecLegends == Init /\ [][NextLegends]_vars

(***************************************************************************)
(* Properties of the classification of one trip block (SpecClassify)       *)
(***************************************************************************)

Min(S) == CHOOSE x \in S : \A y \in S : x <= y

Max(S) == CHOOSE x \in S : \A y \in S : x >= y

\* the one-block row has been read and its block produced a trip
Classified == rowsDone = 1 /\ Len(lastRow.wrap_times) = 1 /\ timetable # <<>>

TheBlock == lastRow.wrap_times[1]

TheTrip == timetable[1].times[1]

\* positions of the legends that are no train type symbol and are keys of
\* the destination map
DestinationPositions(v, legends) ==
    {i \in 1..Len(legends) :
        /\ legends[i] \notin train_type_symbols(v)
        /\ legends[i] \in DOMAIN destination_map(v)}

FirstMatchDestination(v, legends) ==
    IF DestinationPositions(v, legends) = {} THEN default_destination(v)
    ELSE destination_map(v)[legends[Min(DestinationPositions(v, legends))]]

\* C1: in all three converters the destination of a trip is the code mapped
\* from the first legend, in list order, that is no train type symbol and is
\* a key of the destination map (the default when there is none); later
\* legends never change it.
C1_FirstMatchWins ==
    Classified =>
        TheTrip.destination = FirstMatchDestination(variant, TheTrip.legends)

\* C2: in the main converter, a trip whose legends contain "E" has train
\* type "m" exactly when color-orange is among its classes and its
\* destination is "i"; otherwise it has train type "l", whatever the colours.
C2_AirportType ==
    (Classified /\ variant = "main" /\ "E" \in Range(TheTrip.legends)) =>
        /\ TheTrip.train_type \in {"m", "l"}
        /\ TheTrip.train_type = "m" <=>
              ("color-orange" \in TheBlock.classes /\ TheTrip.destination = "i")

C2_Witness ==
    /\ Classified /\ variant = "main"
    /\ TheTrip.legends = <<"E", "kuu">>
    /\ TheBlock.classes = {"color-orange"}
    /\ TheTrip.train_type = "m"

ColorPriority ==
    <<"color-pink", "color-red", "color-orange", "color-green", "color-blue">>

\* the codes the two Oshiage-direction converters give the colours
ColorCode(v, color) ==
    IF v = "main"
    THEN CASE color = "color-pink" -> "p" [] color = "color-red" -> "q"
           [] color = "color-orange" -> "k" [] color = "color-green" -> "r"
           [] color = "color-blue" -> "n"
    ELSE CASE color = "color-pink" -> "m" [] color = "color-red" -> "n"
           [] color = "color-orange" -> "k" [] color = "color-green" -> "o"

\* positions in ColorPriority of the colours present that the converter knows
KnownColors(v, classes) ==
    {i \in 1..Len(ColorPriority) :
        ColorPriority[i] \in classes /\ (v = "main" \/ ColorPriority[i] # "color-blue")}

PriorityType(v, classes) ==
    IF KnownColors(v, classes) = {} THEN (IF v = "main" THEN "o" ELSE "l")
    ELSE ColorCode(v, ColorPriority[Min(KnownColors(v, classes))])

\* C3: in the main and the oshiage converter, when the airport rule does not
\* apply, the train type is the code of the highest-priority colour present
\* (pink, red, orange, green, blue; blue only in main), whatever the other
\* colours, and the default ("o" resp. "l") when no colour is present.
C3_ColorPriority ==
    (/\ Classified /\ variant \in {"main", "oshiage"}
     /\ ~(variant = "main" /\ "E" \in Range(TheTrip.legends))) =>
        TheTrip.train_type = PriorityType(variant, TheBlock.classes)

C3_Witness ==
    /\ Classified /\ variant = "main"
    /\ TheBlock.classes = {"color-red", "color-green", "color-blue"}
    /\ "E" \notin Range(TheTrip.legends)
    /\ TheTrip.train_type = "q"

\* the legends hold no destination glyph: none, or train type symbols and
\* glyphs outside the destination map only
NoDestinationGlyph(v, legends) == DestinationPositions(v, legends) = {}

\* the same row with an empty wrapLegend element in place of none
WithEmptyLegend(row) ==
    [row EXCEPT !.wrap_times =
        <<[row.wrap_times[1] EXCEPT !.legend_elem = TRUE, !.spans = <<>>]>>]

\* what C4 states besides the train type: the trip exists, has the default
\* destination, and a missing legend element acts as an empty one
C4_Common ==
    /\ (/\ rowsDone = 1 /\ variant \in {"main", "oshiage"}
        /\ TheBlock.time_elem /\ TheBlock.time_text = <<"15">>) => Classified
    /\ (/\ Classified /\ variant \in {"main", "oshiage"}
        /\ NoDestinationGlyph(variant, TheTrip.legends)) =>
            TheTrip.destination = "j"
    /\ (/\ rowsDone = 1 /\ variant \in {"main", "oshiage"}
        /\ ~TheBlock.legend_elem) =>
            timetable = register_row(variant, <<>>, WithEmptyLegend(lastRow))
    /\ (/\ Classified /\ variant \in {"main", "oshiage"}
        /\ TheTrip.legends = <<"A">> /\ TheBlock.classes = {"color-orange"}
        /\ TheBlock.time_text = <<"15">>) =>
            /\ TheTrip.minute = <<"15">>
            /\ TheTrip.train_type = "k"
            /\ TheTrip.destination = "j"

\* C4 as stated: in the main and the oshiage converter a block whose legends
\* hold no destination glyph yields a trip with the default destination and
\* the train type resolved from the colour tokens.
C4_Original ==
    /\ C4_Common
    /\ (/\ Classified /\ variant \in {"main", "oshiage"}
        /\ NoDestinationGlyph(variant, TheTrip.legends)) =>
            TheTrip.train_type = PriorityType(variant, TheBlock.classes)

\* C4 amended: as C4, but in the main converter a legend list that holds
\* "E" gives train type "l" whatever the colours; every other block without
\* a destination glyph has the train type resolved from the colour tokens.
C4_Amended ==
    /\ C4_Common
    /\ (/\ Classified /\ variant \in {"main", "oshiage"}
        /\ NoDestinationGlyph(variant, TheTrip.legends)) =>
            TheTrip.train_type =
                IF variant = "main" /\ "E" \in Range(TheTrip.legends) THEN "l"
                ELSE PriorityType(variant, TheBlock.classes)

C4_Witness ==
    /\ Classified /\ variant = "main"
    /\ TheTrip.legends = <<"E">>
    /\ TheBlock.classes = {"color-pink", "color-orange"}
    /\ TheTrip.destination = "j"
    /\ TheTrip.train_type = "l"

TrackGlyphs == {"c1", "c2"}

TrackCode(g) == IF g = "c1" THEN "f" ELSE "g"

TrackPositions(legends) ==
    {i \in 1..Len(legends) : legends[i] \in TrackGlyphs}

\* positions of the generic destination glyphs: keys of the destination map
\* that are neither track glyphs nor train type symbols
GenericPositions(legends) ==
    DestinationPositions("nishimagome", legends) \ TrackPositions(legends)

RowRead == rowsDone > 0 /\ lastRow.th /\ lastRow.td

\* positions of the blocks of a row that carry a time element
TimedPositions(row) ==
    {i \in 1..Len(row.wrap_times) : row.wrap_times[i].time_elem}

\* positions of the blocks of a row whose time text is the placeholder
PlaceholderPositions(row) ==
    {i \in TimedPositions(row) : row.wrap_times[i].time_text = Placeholder}

\* the rank of position p among the positions S
Rank(S, p) == Cardinality({q \in S : q <= p})

\* the trips of the hour of the row read last are the trips of the blocks
\* at positions S of that row, in the order of the row
HourHoldsBlocks(S) ==
    /\ dict_has(timetable, lastRow.th_text)
    /\ Len(dict_get(timetable, lastRow.th_text)) = Cardinality(S)
    /\ \A p \in S :
          strip(dict_get(timetable, lastRow.th_text)[Rank(S, p)].minute)
              = strip(lastRow.wrap_times[p].time_text)

\* text.split(sep) over tokens
RECURSIVE SplitOn(_, _)
SplitOn(text, sep) ==
    IF \A i \in 1..Len(text) : text[i] # sep THEN <<text>>
    ELSE LET k == Min({i \in 1..Len(text) : text[i] = sep})
         IN  <<SubSeq(text, 1, k - 1)>>
                \o SplitOn(SubSeq(text, k + 1, Len(text)), sep)

\* the lines of the output that follow the definitions, the blank line, the
\* day header and the title of the one document
OutputHourLines ==
    LET lines == SplitOn(output, "\n")
        first == Cardinality(DOMAIN destination_definitions(variant))
                    + Cardinality(DOMAIN train_type_definitions(variant)) + 4
    IN  SubSeq(lines, first, Len(lines))

\* the hour label of an hour line, and its entries
LineHour(line) == SplitOn(line, ": ")[1]

LineEntries(line) == SplitOn(SplitOn(line, ": ")[2], " ")

\* the hour labels of the output, in the order of the output
OutputHours ==
    LET lines == OutputHourLines
    IN  [i \in 1..Len(lines) |-> LineHour(lines[i])]

Filtering == variant \in {"main", "nishimagome"}

C6_State ==
    Filtering =>
        /\ \A i \in 1..Len(timetable) : \A k \in 1..Len(timetable[i].times) :
              timetable[i].times[k].minute # Placeholder
        /\ (RowRead /\ TimedPositions(lastRow) # PlaceholderPositions(lastRow)) =>
              HourHoldsBlocks(TimedPositions(lastRow) \ PlaceholderPositions(lastRow))
        /\ pc = "done" =>
              LET hours == OutputHours
              IN  Range(hours) \subseteq Range(dict_keys(timetable))

C6_Step ==
    (/\ Filtering /\ rowsDone' = rowsDone + 1
     /\ TimedPositions(lastRow') = PlaceholderPositions(lastRow')) =>
        timetable' = timetable

\* C6: in the main and the nishimagome converter no trip of the timetable
\* has the placeholder as its minute label; the blocks of a row before and
\* after a placeholder block are all added, in order; a row whose timed
\* blocks are all placeholders leaves the timetable as it was, and the output
\* holds hour lines only for hours of the timetable.
C6_PlaceholderFiltered == [](C6_State) /\ [][C6_Step]_vars

C6_Witness ==
    /\ variant = "main" /\ pc = "done" /\ rowsDone = 2
    /\ lastRow = Row(TRUE, <<"6">>, TRUE, <<BlockPlaceholder, BlockPlaceholder>>)
    /\ Len(timetable) = 1
    /\ timetable[1].hour = <<"5">>
    /\ [k \in 1..Len(timetable[1].times) |-> timetable[1].times[k].minute]
          = << <<"15">>, <<"30">> >>
    /\ OutputHours = << <<"5">> >>

\* C7: in the oshiage converter a block whose time text is the placeholder
\* is kept as a trip with the placeholder as minute label, so every timed
\* block of a row is in its hour bucket; its entry in the output is train
\* type, destination, placeholder; an hour whose only blocks are
\* placeholders is present in the timetable.
C7_PlaceholderKept ==
    variant = "oshiage" =>
        /\ (RowRead /\ TimedPositions(lastRow) # {}) =>
              /\ HourHoldsBlocks(TimedPositions(lastRow))
              /\ \A p \in PlaceholderPositions(lastRow) :
                    dict_get(timetable, lastRow.th_text)
                        [Rank(TimedPositions(lastRow), p)].minute = Placeholder
        /\ pc = "done" =>
              LET lines == OutputHourLines
              IN  /\ Len(lines) = Len(timetable)
                  /\ \A i \in 1..Len(lines) :
                    LET times   == dict_get(timetable, LineHour(lines[i]))
                        entries == LineEntries(lines[i])
                    IN  /\ Len(entries) = Len(times)
                        /\ \A k \in 1..Len(times) :
                              times[k].minute = Placeholder =>
                                  entries[k] = <<times[k].train_type,
                                                 times[k].destination, "FWHYPHEN">>

C7_Witness ==
    /\ variant = "oshiage" /\ pc = "done" /\ rowsDone = 1
    /\ lastRow = Row(TRUE, <<"5">>, TRUE, <<BlockPlaceholder>>)
    /\ dict_has(timetable, <<"5">>)
    /\ OutputHourLines = << <<"5", ": ", "k", "h", "FWHYPHEN">> >>

\* C8: at every point of the extraction, and after it, every hour key of the
\* timetable maps to a non-empty trip sequence.
C8_NoEmptyHour ==
    \A i \in 1..Len(timetable) : timetable[i].times # <<>>

C8_Witness ==
    /\ rowsDone = 2 /\ RowRead
    /\ lastRow.wrap_times # <<>>
    /\ timetable # <<>>
    /\ ~dict_has(timetable, lastRow.th_text)

\* the entries of an hour line as C12 words them: for each trip its train
\* type code, its destination code and its minute label, a space between
\* two entries
RECURSIVE ExpectedEntries(_)
ExpectedEntries(times) ==
    IF times = <<>> THEN <<>>
    ELSE <<Head(times).train_type, Head(times).destination>>
            \o Head(times).minute
            \o (IF Len(times) > 1 THEN <<" ">> ELSE <<>>)
            \o ExpectedEntries(Tail(times))

\* positions of the blocks of a row that the converter keeps as trips
KeptPositions(row) ==
    IF Filtering THEN TimedPositions(row) \ PlaceholderPositions(row)
    ELSE TimedPositions(row)

\* no minute label of the trips holds a blank
NoBlankMinute(times) ==
    \A k \in 1..Len(times) : " " \notin Range(times[k].minute)

\* C12: the line of an hour is the hour label, ": ", and one entry per trip
\* of the hour, separated by single spaces, each entry being train type code,
\* destination code, minute label; the trips of an hour are the kept blocks
\* of its row in the order of the row, classified as the block is.
C12_HourLine ==
    /\ (RowRead /\ KeptPositions(lastRow) # {}) =>
          /\ HourHoldsBlocks(KeptPositions(lastRow))
          /\ \A p \in KeptPositions(lastRow) :
                <<dict_get(timetable, lastRow.th_text)
                    [Rank(KeptPositions(lastRow), p)]>>
                  = block_times(variant, lastRow.wrap_times[p])
    /\ pc = "done" =>
          LET lines == OutputHourLines
          IN  /\ Len(lines) = Len(timetable)
              /\ \A i \in 1..Len(lines) :
                    LET hour  == LineHour(lines[i])
                        times == dict_get(timetable, hour)
                    IN  /\ dict_has(timetable, hour)
                        /\ lines[i] = hour \o <<": ">> \o ExpectedEntries(times)
                        /\ NoBlankMinute(times) =>
                              Len(LineEntries(lines[i])) = Len(times)

C12_Witness ==
    /\ variant = "main" /\ pc = "done" /\ rowsDone = 1
    /\ lastRow = Row(TRUE, <<"5">>, TRUE,
                     <<BlockPlain, BlockPlaceholder, BlockPadded>>)
    /\ OutputHourLines
          = << <<"5", ": ", "o", "j", "15", " ", "q", "d", "30">> >>

(***************************************************************************)
(* Properties of the order of the hour lines (SpecSerialize)               *)
(***************************************************************************)

\* hours holds each hour of the timetable once
IsPermutationOfKeys(hours) ==
    /\ Len(hours) = Len(timetable)
    /\ Range(hours) = Range(dict_keys(timetable))

\* in hours, the hours 0 and 1 come after every hour 2..23
MidnightLast(hours) ==
    \A i, j \in 1..Len(hours) :
        (/\ hours[i] \in {<<"0">>, <<"1">>}
         /\ isdigit(hours[j]) /\ int(hours[j]) \in 2..23) => j < i

\* in hours, the hours 0 and 1 come before every hour 2..23
MidnightFirst(hours) ==
    \A i, j \in 1..Len(hours) :
        (/\ hours[i] \in {<<"0">>, <<"1">>}
         /\ isdigit(hours[j]) /\ int(hours[j]) \in 2..23) => i < j

\* hours is in non-decreasing order of Key
SortedBy(hours, Key(_)) ==
    \A i, j \in 1..Len(hours) : i < j => Key(hours[i]) <= Key(hours[j])

\* the key as C9 words it: the labels "0" and "1" are remapped
LabelKey(label) ==
    IF label = <<"0">> THEN 24
    ELSE IF label = <<"1">> THEN 25
    ELSE IF isdigit(label) THEN int(label) ELSE 0

\* the key with every numeric label of value 0 or 1 remapped
ValueKey(label) ==
    IF isdigit(label) /\ int(label) = 0 THEN 24
    ELSE IF isdigit(label) /\ int(label) = 1 THEN 25
    ELSE IF isdigit(label) THEN int(label) ELSE 0

\* the key without remapping
NumericKey(label) == IF isdigit(label) THEN int(label) ELSE 0

Remapping == variant \in {"main", "nishimagome"}

C9_Example(hours) ==
    Range(dict_keys(timetable)) = {<<"3">>, <<"2", "3">>, <<"0">>, <<"1">>} =>
        hours = << <<"3">>, <<"2", "3">>, <<"0">>, <<"1">> >>

\* C9 as stated: in the main and the nishimagome converter the hour lines
\* are sorted by the key 0 for a non-numeric label, 24 for "0", 25 for "1",
\* otherwise the integer value of the label.
C9_Original ==
    (Remapping /\ pc = "done") =>
        LET hours == OutputHours
        IN  /\ IsPermutationOfKeys(hours)
            /\ SortedBy(hours, LabelKey)
            /\ C9_Example(hours)
            /\ MidnightLast(hours)

\* C9 amended: the key is 24 for every numeric label whose integer value is
\* 0 and 25 for every numeric label whose value is 1 ("00" and "01" too),
\* 0 for a non-numeric label, otherwise the integer value of the label.
C9_Amended ==
    (Remapping /\ pc = "done") =>
        LET hours == OutputHours
        IN  /\ IsPermutationOfKeys(hours)
            /\ SortedBy(hours, ValueKey)
            /\ C9_Example(hours)
            /\ MidnightLast(hours)

C9_Witness ==
    /\ variant = "main" /\ pc = "done"
    /\ dict_keys(timetable) = << <<"0">>, <<"3">>, <<"1">>, <<"2", "3">> >>
    /\ OutputHours = << <<"3">>, <<"2", "3">>, <<"0">>, <<"1">> >>

\* C10: in the oshiage converter the hour lines are sorted by the integer
\* value of the label, 0 for a non-numeric label, with no remapping, so the
\* hours 0 and 1 come before every hour 2..23.
C10_NumericOrder ==
    (variant = "oshiage" /\ pc = "done") =>
        LET hours == OutputHours
        IN  /\ IsPermutationOfKeys(hours)
            /\ SortedBy(hours, NumericKey)
            /\ MidnightFirst(hours)

C10_Witness ==
    /\ variant = "oshiage" /\ pc = "done"
    /\ dict_keys(timetable) = << <<"2", "3">>, <<"1">>, <<"3">>, <<"0">> >>
    /\ OutputHours = << <<"0">>, <<"1">>, <<"3">>, <<"2", "3">> >>

(***************************************************************************)
(* Properties of a run over several documents (SpecDocuments)              *)
(***************************************************************************)

\* the lines of the definitions of the converter, as the output starts
HeaderLines(v) == destination_lines(v) \o train_type_lines(v)

\* the block of the k-th document supplied
BlockOf(k) == document_lines(variant, parse_html(variant, documents[k]))

\* the blocks of the first n documents supplied, one after the other
RECURSIVE BlocksUpTo(_)
BlocksUpTo(n) ==
    IF n = 0 THEN <<>> ELSE BlocksUpTo(n - 1) \o BlockOf(n)

DayHeaders == { <<"[MON][TUE][WED][THU][FRI]">>, <<"[SAT][SUN][HOL]">> }

\* C11: the output is the definitions followed by one block per document
\* supplied, in the order the documents were supplied; every block starts
\* with a blank line, a day header and a title line, also when the timetable
\* of the document is empty, and holds one line per hour of the timetable.
C11_DocumentOrder ==
    pc = "done" =>
        /\ Len(parsed_documents) = Len(documents)
        /\ \A k \in 1..Len(documents) :
              /\ parsed_documents[k] = parse_html(variant, documents[k])
              /\ Len(BlockOf(k)) = 3 + Len(parsed_documents[k].timetable)
              /\ BlockOf(k)[1] = <<>>
              /\ BlockOf(k)[2] \in DayHeaders
              /\ BlockOf(k)[3][1] = "# "
        /\ output = join("\n", HeaderLines(variant) \o BlocksUpTo(Len(documents)))

C11_Witness ==
    /\ pc = "done"
    /\ documents = <<DocEmpty, DocWeekday>>
    /\ parsed_documents[1].timetable = <<>>
    /\ Len(parsed_documents[2].timetable) = 2
    /\ output = join("\n", HeaderLines(variant) \o BlockOf(1) \o BlockOf(2))

\* the position of a code in the alphabet
CodeRank(code) == CHOOSE i \in 1..Len(CodeOrder) : CodeOrder[i] = code

\* lines holds one line per key of definitions, in ascending order of the
\* code, each line the code, ":", and the fields separated by ";"
IsDefinitionBlock(lines, definitions, nfields) ==
    /\ Len(lines) = Cardinality(DOMAIN definitions)
    /\ {lines[i][1] : i \in 1..Len(lines)} = DOMAIN definitions
    /\ \A i, j \in 1..Len(lines) :
          i < j => CodeRank(lines[i][1]) < CodeRank(lines[j][1])
    /\ \A i \in 1..Len(lines) :
          LET fields == definitions[lines[i][1]]
          IN  /\ Len(fields) = nfields
              /\ lines[i] = <<lines[i][1], ":", fields[1]>>
                    \o (IF nfields = 2 THEN <<";", fields[2]>>
                        ELSE <<";", fields[2], ";", fields[3]>>)

\* what C15 states about the start of the output
C15_Header ==
    LET lines == SplitOn(output, "\n")
        nd    == Cardinality(DOMAIN destination_definitions(variant))
        nt    == Cardinality(DOMAIN train_type_definitions(variant))
    IN  /\ Len(lines) >= nd + nt
        /\ IsDefinitionBlock(SubSeq(lines, 1, nd),
                             destination_definitions(variant), 2)
        /\ IsDefinitionBlock(SubSeq(lines, nd + 1, nd + nt),
                             train_type_definitions(variant), 3)
        /\ IF parsed_documents = <<>> THEN Len(lines) = nd + nt
           ELSE /\ Len(lines) >= nd + nt + 3
                /\ lines[nd + nt + 1] = <<>>
                /\ lines[nd + nt + 2] \in DayHeaders

EndsWithNewline(text) == text # <<>> /\ text[Len(text)] = "\n"

\* the minute label of the last trip of the last hour line of the output
LastMinute ==
    LET tt    == parsed_documents[Len(parsed_documents)].timetable
        hours == sorted_hours(variant, tt)
        times == dict_get(tt, hours[Len(hours)])
    IN  times[Len(times)].minute

\* the last line of the output is an hour line whose last minute label ends
\* with a line break
LastMinuteEndsWithNewline ==
    /\ parsed_documents # <<>>
    /\ parsed_documents[Len(parsed_documents)].timetable # <<>>
    /\ EndsWithNewline(LastMinute)

\* C15 as stated: the output starts with one line per destination code in
\* ascending order, then one line per train type code in ascending order,
\* all before the first block and whatever the documents are (also for an
\* empty list), and the output never ends with a line break.
C15_Original ==
    pc = "done" => (C15_Header /\ ~EndsWithNewline(output))

\* C15 amended: the start of the output is as stated; the output ends with a
\* line break only when its last line is an hour line whose last minute label
\* itself ends with one, which only the nishimagome converter (it keeps the
\* time text unstripped) can produce; the two other converters never end
\* the output with a line break.
C15_Amended ==
    pc = "done" =>
        /\ C15_Header
        /\ EndsWithNewline(output) <=> LastMinuteEndsWithNewline
        /\ variant # "nishimagome" => ~EndsWithNewline(output)

C15_Witness ==
    /\ pc = "done" /\ variant = "nishimagome"
    /\ documents = <<DocWeekday, DocTrailing>>
    /\ LastMinute = <<"45", "\n">>
    /\ EndsWithNewline(output)

\* the second call returned the text of the first call
C16_SameText == pc = "again" => output2 = output

\* a call of convert_to_nexttrain leaves the parsed documents as they were
C16_InputsKept ==
    (pc' # pc /\ pc' \in {"done", "again"}) =>
        /\ parsed_documents' = parsed_documents
        /\ documents' = documents
        /\ variant' = variant

Parsed == Len(documents) = 1 /\ Len(parsed_documents) = 1

TheDoc == documents[1]

TheStation == parsed_documents[1].station

\* the number of definition lines the output of converter v starts with
NDefs(v) ==
    Cardinality(DOMAIN destination_definitions(v))
        + Cardinality(DOMAIN train_type_definitions(v))

OutputLines == SplitOn(output, "\n")

\* the day type C13 gives the text of the active day tab
ClaimedDayType(day_text) ==
    IF "heijitsu" \in Range(day_text) THEN "weekday"
    ELSE IF "doyou" \in Range(day_text) THEN "holiday"
    ELSE IF "kyuujitsu" \in Range(day_text) THEN "holiday"
    ELSE ""

\* the active day tab, when the document has one, holds its link
DayTabReadable(doc) == doc.day_li => doc.day_a

\* C13: the day type of a document is weekday when the text of the active
\* day tab holds the weekday token, holiday when it holds the Saturday or
\* the holiday token (and not the weekday token), and the empty (unknown)
\* day type otherwise, also when there is no active day tab; the day header
\* of the block is [MON][TUE][WED][THU][FRI] for a weekday document and
\* [SAT][SUN][HOL] for every other document.
C13_DayType ==
    (Parsed /\ DayTabReadable(TheDoc)) =>
        /\ TheStation.day_type =
              IF TheDoc.day_li THEN ClaimedDayType(TheDoc.day_text) ELSE ""
        /\ pc = "done" =>
              OutputLines[NDefs(variant) + 2] =
                  IF TheStation.day_type = "weekday"
                  THEN <<"[MON][TUE][WED][THU][FRI]">>
                  ELSE <<"[SAT][SUN][HOL]">>

C13_Witness ==
    /\ Parsed /\ pc = "done"
    /\ TheDoc.day_li /\ TheDoc.day_text = <<"heijitsu", "SEP", "doyou">>
    /\ TheStation.day_type = "weekday"
    /\ OutputLines[NDefs(variant) + 2] = <<"[MON][TUE][WED][THU][FRI]">>

\* the direction C14 puts in the title line
ClaimedDirection(direction) ==
    IF \E i \in 1..Len(direction) : direction[i] = "SEP"
    THEN SubSeq(direction, 1,
                Min({i \in 1..Len(direction) : direction[i] = "SEP"}) - 1)
            \o <<"houmen">>
    ELSE direction

\* C14: the title line is "# ", the station name, "eki ", the direction,
\* "(", the day type label, ")"; a direction that holds the separator is
\* replaced by its first segment followed by "houmen", a direction without
\* the separator is emitted unchanged.
C14_TitleDirection ==
    (Parsed /\ pc = "done") =>
        OutputLines[NDefs(variant) + 3] =
            <<"# ">> \o TheStation.name \o <<"eki ">>
                \o ClaimedDirection(TheStation.direction)
                \o <<"(", IF TheStation.day_type = "weekday" THEN "heijitsu"
                          ELSE "dokyuujitsu", ")">>

C14_Witness ==
    /\ Parsed /\ pc = "done"
    /\ TheDoc.h1 /\ TheDoc.h1_text = <<"Sengakuji">>
    /\ TheDoc.dir_text = <<"Oshiage", "SEP", "Keisei", "SEP", "Hokusou">>
    /\ TheDoc.day_text = <<"doyou">>
    /\ OutputLines[NDefs(variant) + 3] =
          <<"# ", "Sengakuji", "eki ", "Oshiage", "houmen",
            "(", "dokyuujitsu", ")">>

\* the rows of a table that have their hour cell and their data cell
WellFormedRows(rows) == SelectSeq(rows, LAMBDA row : row.th /\ row.td)

\* C18: extraction of the timetable never raises; a document without the
\* table carrying the timetable marker, or without its body, yields an empty
\* timetable; a row without hour cell or without data cell is skipped and
\* the timetable is the one of the same table without such rows.
C18_StructuralAbsence ==
    Len(documents) = 1 =>
        /\ ~extract_station_info(variant, TheDoc).raised => Parsed
        /\ Parsed =>
              /\ (TheDoc.table # "tt-table" \/ ~TheDoc.tbody) =>
                    parsed_documents[1].timetable = <<>>
              /\ (TheDoc.table = "tt-table" /\ TheDoc.tbody) =>
                    parsed_documents[1].timetable =
                        extract_rows(variant, <<>>, WellFormedRows(TheDoc.rows))

\* C19: extraction of the station info never raises; a missing heading
\* leaves the name empty, a missing active direction item or a missing link
\* in it leaves the direction empty, a missing active day item or a missing
\* link in it leaves the day type unknown, and the other fields are still
\* extracted.
C19_StationInfoRobust ==
    Len(documents) = 1 =>
        /\ pc # "error"
        /\ Parsed
        /\ TheStation.name =
              IF TheDoc.h1 THEN strip(TheDoc.h1_text) ELSE <<>>
        /\ TheStation.direction =
              IF TheDoc.dir_li /\ TheDoc.dir_a THEN strip(TheDoc.dir_text)
              ELSE <<>>
        /\ TheStation.day_type =
              IF TheDoc.day_li /\ TheDoc.day_a
              THEN ClaimedDayType(TheDoc.day_text) ELSE ""

(***************************************************************************)
(* Properties of the legends of one document (SpecLegends)                 *)
(***************************************************************************)

\* the bucket C20 gives a heading
ClaimedBucket(head_text) ==
    IF "shubetsu" \in Range(head_text) THEN "train_types"
    ELSE IF "ikisaki" \in Range(head_text) THEN "destinations"
    ELSE IF "setsuzoku" \in Range(head_text) THEN "connections"
    ELSE "none"

\* the texts of all items of the sections whose heading gives the bucket,
\* in the order of the document
RECURSIVE ClaimedItems(_, _)
ClaimedItems(sections, bucket) ==
    IF sections = <<>> THEN <<>>
    ELSE (IF Head(sections).head
             /\ ClaimedBucket(Head(sections).head_text) = bucket
          THEN [i \in 1..Len(Head(sections).items) |->
                    strip(Head(sections).items[i].text)]
          ELSE <<>>)
            \o ClaimedItems(Tail(sections), bucket)

\* C20: every item of a legend section goes to the one bucket its heading
\* gives (train types, then destinations, then connections), the items of a
\* section without heading or with a heading that matches no token go to no
\* bucket, and each bucket keeps the order of the document.
C20_LegendBuckets ==
    Parsed =>
        \A bucket \in {"train_types", "destinations", "connections"} :
            parsed_documents[1].legends[bucket]
                = ClaimedItems(TheDoc.sections, bucket)

(***************************************************************************)
(* Properties of the codes of the trips (SpecCodes)                        *)
(***************************************************************************)

\* the codes the definition lines [from..to] of the output define
DefinedCodes(from, to) ==
    LET lines == SplitOn(output, "\n")
    IN  {lines[i][1] : i \in from..to}

\* C17: in every converter the destination code of every trip is a key of
\* the destination definitions and its train type code a key of the train
\* type definitions of that converter, so each entry of the output starts
\* with a train type code and a destination code that the definition lines
\* of the output define.
C17_CodesDefined ==
    /\ \A i \in 1..Len(timetable) : \A k \in 1..Len(timetable[i].times) :
          /\ timetable[i].times[k].destination
                \in DOMAIN destination_definitions(variant)
          /\ timetable[i].times[k].train_type
                \in DOMAIN train_type_definitions(variant)
    /\ pc = "done" =>
          LET nd    == Cardinality(DOMAIN destination_definitions(variant))
              nt    == Cardinality(DOMAIN train_type_definitions(variant))
              lines == OutputHourLines
          IN  \A i \in 1..Len(lines) :
                /\ Len(lines[i]) >= 4
                /\ lines[i][3] \in DefinedCodes(nd + 1, nd + nt)
                /\ lines[i][4] \in DefinedCodes(1, nd)

C17_Witness ==
    /\ variant = "nishimagome" /\ pc = "done" /\ Classified
    /\ TheBlock.classes = {"color-orange"}
    /\ TheTrip.legends = <<"c2">>
    /\ OutputHourLines = << <<"5", ": ", "q", "g", "15">> >>

(***************************************************************************)
(* Properties of a table that repeats hour labels (SpecRows)               *)
(***************************************************************************)

\* the rows of the document the converter reads under the hour label h and
\* that yield at least one trip: they keep at least one block
YieldingRows(h) ==
    {i \in 1..Len(TheDoc.rows) :
        /\ row_matches(variant, TheDoc.rows[i])
        /\ row_hour(variant, TheDoc.rows[i]) = h
        /\ KeptPositions(TheDoc.rows[i]) # {}}

\* the hour labels the converter reads from the rows of the document
RowLabels ==
    {row_hour(variant, TheDoc.rows[i]) :
        i \in {j \in 1..Len(TheDoc.rows) : row_matches(variant, TheDoc.rows[j])}}

\* C21: when several rows of a document have the same hour label, the
\* entry of the timetable for that hour is the trip sequence of the last of
\* these rows that yielded at least one trip: it replaces the trips of the
\* earlier rows and is not appended to them, and a later row of that label
\* that yields no trip leaves it in place; an hour none of whose rows
\* yields a trip has no entry.
C21_LastYieldingRow ==
    Parsed =>
        LET tt == parsed_documents[1].timetable
        IN  /\ \A h \in RowLabels :
                  IF YieldingRows(h) = {} THEN ~dict_has(tt, h)
                  ELSE /\ dict_has(tt, h)
                       /\ dict_get(tt, h)
                            = row_times(variant,
                                TheDoc.rows[Max(YieldingRows(h))].wrap_times)
            /\ \A i \in 1..Len(tt) : tt[i].hour \in RowLabels

C21_Witness ==
    /\ Parsed /\ variant = "main"
    /\ TheDoc.rows = << Row(TRUE, <<"5">>, TRUE, <<BlockPlain>>),
                        Row(TRUE, <<"5">>, TRUE, <<BlockPadded, BlockPlain>>),
                        Row(TRUE, <<"5">>, TRUE, <<BlockPlaceholder>>) >>
    /\ Len(parsed_documents[1].timetable) = 1
    /\ Len(parsed_documents[1].timetable[1].times) = 2
    /\ parsed_documents[1].timetable[1].times[1].minute = <<"30">>
    /\ parsed_documents[1].timetable[1].times[2].minute = <<"15">>

(***************************************************************************)
(* Properties of the trip blocks without time element (SpecTimed)          *)
(***************************************************************************)

\* the row without its trip blocks that carry no time element
TimedOnly(row) ==
    [row EXCEPT !.wrap_times = SelectSeq(row.wrap_times,
                                         LAMBDA b : b.time_elem)]

\* the step that reads a row: the timetable is the one the row gives without
\* its blocks that carry no time element; a row that keeps a block fills the
\* bucket of its hour with at most as many trips as it has blocks with a
\* time element, any other row leaves the timetable as it was
C22_Step ==
    rowsDone' = rowsDone + 1 =>
        /\ timetable' = register_row(variant, timetable, TimedOnly(lastRow'))
        /\ IF row_matches(variant, lastRow') /\ KeptPositions(lastRow') # {}
           THEN /\ dict_has(timetable', row_hour(variant, lastRow'))
                /\ Len(dict_get(timetable', row_hour(variant, lastRow')))
                      <= Cardinality(TimedPositions(lastRow'))
           ELSE timetable' = timetable

\* every trip of the timetable has a minute label read from a time element:
\* after one row, the bucket holds no more trips than the row has blocks
\* with a time element
C22_State ==
    (rowsDone = 1 /\ timetable # <<>>) =>
        /\ Len(timetable) = 1
        /\ Len(timetable[1].times) <= Cardinality(TimedPositions(lastRow))

\* C22: in every converter a trip block without time element adds no trip
\* to the bucket of its hour, whatever its legends and colour tokens; the
\* bucket a row fills never holds more trips than the row has trip blocks
\* with a time element.
C22_UntimedBlock == [](C22_State) /\ [][C22_Step]_vars

C22_Witness ==
    /\ variant = "main" /\ rowsDone = 1
    /\ lastRow = Row(TRUE, <<"5">>, TRUE,
                     << BlockPlain,
                        Block({"color-red"}, TRUE, <<"hane">>, FALSE, <<>>),
                        BlockPadded, BlockPlaceholder >>)
    /\ Len(timetable) = 1
    /\ Len(timetable[1].times) = 2

====
